---- MODULE Spec2Model ----
(***************************************************************************)
(* The client connection pool of src/client/pool.rs: the idle multimap,    *)
(* the parked waiter queues, the shared status cells, the Pooled handles   *)
(* and the Checkout futures, with one action per public operation.         *)
(*                                                                         *)
(* A connection value is identified by the number of the pooled() call     *)
(* that installed it.  An Option is a sequence of length at most one.      *)
(* The crate is modelled with the "http2" feature on.                      *)
(***************************************************************************)
EXTENDS Integers, Sequences, FiniteSets, Bags, TLC

\* ------------------------------------------------------------------ bounds
\* A run is explored within limits chosen at the start.  Waiters: three
\* checkouts queue for one connection.  Sharers: two checkouts, with the
\* caller cloning its Pooled handle and the client its Pool.  Reusers: two
\* connections go through the idle list while time passes.  Returners: one
\* connection goes through the idle list, with the same cloning.
\* Multiplexers: two connections of an HTTP/2 key side by side in the idle
\* list.  Streams: two checkouts served by one connection of an HTTP/2 key.
\* `held` bounds the Pooled handles a caller holds when it clones one,
\* `pools` the Pool handles the client holds.
WaitConns == 1
WaitCheckouts == 3
WaitIdle == 1
WaitTime == 0
WaitHeld == 1
WaitPools == 1
ShareConns == 1
ShareCheckouts == 2
ShareIdle == 2
ShareTime == 1
ShareHeld == 2
SharePools == 2
ReuseConns == 2
ReuseCheckouts == 1
ReuseIdle == 3
ReuseTime == 2
ReuseHeld == 1
ReusePools == 1
ReturnConns == 1
ReturnCheckouts == 1
ReturnIdle == 3
ReturnTime == 2
ReturnHeld == 2
ReturnPools == 2
MuxConns == 2
MuxCheckouts == 1
MuxIdle == 2
MuxTime == 1
MuxHeld == 1
MuxPools == 1
StreamConns == 1
StreamCheckouts == 2
StreamIdle == 2
StreamTime == 0
StreamHeld == 1
StreamPools == 1
MaxTimeout == 1

Waiters == [conns |-> WaitConns, checkouts |-> WaitCheckouts, idle |-> WaitIdle,
    time |-> WaitTime, held |-> WaitHeld, pools |-> WaitPools]
Sharers == [conns |-> ShareConns, checkouts |-> ShareCheckouts, idle |-> ShareIdle,
    time |-> ShareTime, held |-> ShareHeld, pools |-> SharePools]
Reusers == [conns |-> ReuseConns, checkouts |-> ReuseCheckouts, idle |-> ReuseIdle,
    time |-> ReuseTime, held |-> ReuseHeld, pools |-> ReusePools]
Returners == [conns |-> ReturnConns, checkouts |-> ReturnCheckouts, idle |-> ReturnIdle,
    time |-> ReturnTime, held |-> ReturnHeld, pools |-> ReturnPools]
Multiplexers == [conns |-> MuxConns, checkouts |-> MuxCheckouts, idle |-> MuxIdle,
    time |-> MuxTime, held |-> MuxHeld, pools |-> MuxPools]
Streams == [conns |-> StreamConns, checkouts |-> StreamCheckouts, idle |-> StreamIdle,
    time |-> StreamTime, held |-> StreamHeld, pools |-> StreamPools]

\* ------------------------------------------------------------- data types
Http1 == "Http1"
Http2 == "Http2"
Ver == {Http1, Http2}
Origins == {"foo"}
Key == Origins \X Ver

None == <<>>
Some(x) == <<x>>
Unwrap(o) == o[1]

Busy == <<"Busy">>
Disabled == <<"Disabled">>
\* An Idle status that does not keep the instant it is given.
Idle_epoch(at) == <<"Idle", 0>>

Idle(at) == <<"Idle", at>>

Async == {"Ready", "NotReady", "Err"}


VARIABLES
    now,         \* the monotonic clock read by Instant::now()
    enabled,     \* PoolInner.enabled
    timeout,     \* PoolInner.timeout : Option<Duration>
    pools,       \* the Pool handles the client holds
    pool_alive,  \* a strong reference to PoolInner exists: a Pool handle or
                 \* a Checkout, each of which owns a clone of the Pool
    connecting,  \* PoolInner.connecting (its key set)
    idle,        \* PoolInner.idle : Key -> Vec<Entry>
    parked,      \* PoolInner.parked : Key -> VecDeque of waiters
    cell,        \* the Rc<Cell<TimedKA>> status cells, by cell number
    held,        \* the Pooled handles held by callers: a bag, a clone is a copy
    target,      \* the key this client's requests go to
    limit,       \* the limits this run is explored within
    checkout,    \* the Checkout futures
    last         \* the last operation and what it returned

vars == <<now, enabled, timeout, pools, pool_alive, connecting, idle, parked, cell,
          held, target, limit, checkout, last>>

\* --------------------------------------------------------------- hash maps
MapInsert(m, k, v) == [x \in (DOMAIN m) \cup {k} |-> IF x = k THEN v ELSE m[x]]
MapRemove(m, k) == [x \in (DOMAIN m) \ {k} |-> m[x]]
EmptyMap == [x \in {} |-> <<>>]

bucket_len(m, k) == IF k \in DOMAIN m THEN Len(m[k]) ELSE 0
Pops(list) == SubSeq(list, 1, Len(list) - 1)
Range(s) == {s[i] : i \in 1..Len(s)}

\* ---------------------------------------------------------------- records
\* An entry built with the reused flag set.
Entry_reused(value, is_reused, status) ==
    [value |-> value, is_reused |-> TRUE, status |-> status]

Entry(value, is_reused, status) ==
    [value |-> value, is_reused |-> is_reused, status |-> status]

Pooled(entry, key) == [entry |-> entry, key |-> key]

NewCheckout(key) ==
    [key |-> key, cancel_token |-> FALSE, parked |-> None, done |-> FALSE]

\* What `last` records of the last operation: its name and the connection
\* value or checkout it acted on.  For a poll: what it returned (res), the
\* value yielded, whether that came through the parked receiver or the idle
\* list (via), what poll_ready answered (ready) and how many entries left
\* the idle list (popped).  For Pooled::idle: which branch ran (res) and how
\* many waiters put took off the parked queue (popped).  For a drop: whether
\* the checkout's waiter was in the queue (via).
NoOp == [op |-> "none", id |-> 0, res |-> "none", value |-> 0, via |-> "none",
         ready |-> <<>>, popped |-> 0]
Op(op, id) == [NoOp EXCEPT !.op = op, !.id = id]
Returned(op, id, res, value, via, ready, popped) ==
    [op |-> op, id |-> id, res |-> res, value |-> value, via |-> via,
     ready |-> ready, popped |-> popped]

\* ------------------------------------------------------------ small helpers
\* Pooled::status: the projection of TimedKA onto KA.
status(c) == c[1]

\* Ready::poll_ready of a pooled value: `ready` is what the connections
\* answer during this poll.
poll_ready(value, ready) == ready[value]

\* expires with >= in place of >.
expires_at_timeout(instant) ==
    IF timeout = None THEN FALSE ELSE now - instant >= Unwrap(timeout)

\* Expiration::expires: instant.elapsed() > timeout.
expires(instant) ==
    IF timeout = None THEN FALSE ELSE now - instant > Unwrap(timeout)

\* relay::Sender::is_canceled of the waiter of checkout w, in the
\* checkout table chk: the receiver is gone.
tx_is_canceled(w, chk) == chk[w] = None \/ Unwrap(chk[w]).parked = None

\* A token that never reads as canceled.
token_never_canceled(w, chk) == FALSE

\* CancelToken::is_canceled of the token parked with the waiter of w.
token_is_canceled(w, chk) == chk[w] # None /\ Unwrap(chk[w]).cancel_token

waiter_is_canceled(w, chk) == tx_is_canceled(w, chk) \/ token_is_canceled(w, chk)

\* A pool that reads as enabled whatever its flag.
is_enabled_always == TRUE

\* Pool::is_enabled
is_enabled == enabled

\* Pool::is_connecting
is_connecting(key) == key[2] # Http1 /\ key \in connecting

\* ------------------------------------------------------------------ Pool::put
\* The walk without the break of the Http1 branch: every live waiter is
\* completed and the entry is kept for the idle list.
RECURSIVE put_walk_no_break(_, _, _)
put_walk_no_break(queue, ver, chk) ==
    IF queue = <<>>
    THEN [rest |-> <<>>, sent |-> <<>>, taken |-> FALSE]
    ELSE LET w == Head(queue)
             r == put_walk_no_break(Tail(queue), ver, chk)
         IN  IF waiter_is_canceled(w, chk) THEN r
             ELSE [r EXCEPT !.sent = <<w>> \o @]

\* The walk stopping at the first live waiter whatever the version.
RECURSIVE put_walk_first_only(_, _, _)
put_walk_first_only(queue, ver, chk) ==
    IF queue = <<>>
    THEN [rest |-> <<>>, sent |-> <<>>, taken |-> FALSE]
    ELSE LET w == Head(queue) IN
         IF waiter_is_canceled(w, chk)
         THEN put_walk_first_only(Tail(queue), ver, chk)
         ELSE [rest |-> Tail(queue), sent |-> <<w>>, taken |-> TRUE]

\* The walk leaving the canceled waiters it passes in the queue.
RECURSIVE put_walk_keeps_canceled(_, _, _)
put_walk_keeps_canceled(queue, ver, chk) ==
    IF queue = <<>>
    THEN [rest |-> <<>>, sent |-> <<>>, taken |-> FALSE]
    ELSE LET w == Head(queue) IN
         IF waiter_is_canceled(w, chk)
         THEN LET r == put_walk_keeps_canceled(Tail(queue), ver, chk)
              IN  [r EXCEPT !.rest = <<w>> \o @]
         ELSE IF ver = Http1
              THEN [rest |-> Tail(queue), sent |-> <<w>>, taken |-> TRUE]
              ELSE LET r == put_walk_keeps_canceled(Tail(queue), ver, chk)
                   IN  [r EXCEPT !.sent = <<w>> \o @]

\* The walk of parked[key] in put (the while-let loop): the waiters left in
\* the queue, the waiters completed, and whether the entry was moved out.
RECURSIVE put_walk(_, _, _)
put_walk(queue, ver, chk) ==
    IF queue = <<>>
    THEN [rest |-> <<>>, sent |-> <<>>, taken |-> FALSE]
    ELSE LET w == Head(queue) IN
         IF waiter_is_canceled(w, chk)
         THEN put_walk(Tail(queue), ver, chk)
         ELSE IF ver = Http1
              THEN [rest |-> Tail(queue), sent |-> <<w>>, taken |-> TRUE]
              ELSE LET r == put_walk(Tail(queue), ver, chk)
                   IN  [r EXCEPT !.sent = <<w>> \o @]

\* relay::Sender::complete for every waiter of sent: its receiver now holds
\* the entry.
complete(chk, sent, entry) ==
    [w \in DOMAIN chk |->
        IF w \in Range(sent)
        THEN Some([Unwrap(chk[w]) EXCEPT !.parked = Some(Some(entry))])
        ELSE chk[w]]

\* Pool::put(key, entry) on the status cells `cells` and the checkouts `chk`.
put(key, entry, cells, chk) ==
    LET cells1 == [cells EXCEPT ![entry.status] = Idle(now)]
        has_parked == key \in DOMAIN parked
        walk == IF has_parked
                THEN put_walk(parked[key], key[2], chk)
                ELSE [rest |-> <<>>, sent |-> <<>>, taken |-> FALSE]
        remove_parked == has_parked /\ walk.rest = <<>>
    IN  [cell |-> cells1,
         checkout |-> complete(chk, walk.sent, entry),
         parked |-> IF ~has_parked THEN parked
                    ELSE IF remove_parked THEN MapRemove(parked, key)
                    ELSE MapInsert(parked, key, walk.rest),
         connecting |-> IF remove_parked THEN connecting \ {key} ELSE connecting,
         idle |-> IF walk.taken THEN idle
                  ELSE MapInsert(idle, key,
                         Append(IF key \in DOMAIN idle THEN idle[key] ELSE <<>>,
                                entry)),
         sent |-> walk.sent]

\* --------------------------------------------------------------- Pool::reuse
\* reuse without the write of Busy to the status cell.
reuse_leaves_status(key, entry, cells) ==
    [pooled |-> Pooled([entry EXCEPT !.is_reused = TRUE], key), cell |-> cells]

reuse(key, entry, cells) ==
    [pooled |-> Pooled([entry EXCEPT !.is_reused = TRUE], key),
     cell |-> IF key[2] = Http1
              THEN [cells EXCEPT ![entry.status] = Busy]
              ELSE cells]

\* ---------------------------------------------------------------- Pool::take
\* A match arm that takes NotReady for usable as well.
acceptable_when_not_ready(entry, cells, ready) ==
    /\ status(cells[entry.status]) = "Idle"
    /\ ~expires(cells[entry.status][2])
    /\ poll_ready(entry.value, ready) \in {"Ready", "NotReady"}

\* What take's match arm accepts: Idle, not expired, and poll_ready Ready.
acceptable(entry, cells, ready) ==
    /\ status(cells[entry.status]) = "Idle"
    /\ ~expires(cells[entry.status][2])
    /\ poll_ready(entry.value, ready) = "Ready"

\* The scan taking from the front of the list (the oldest entry first).
RECURSIVE take_scan_front(_, _, _, _)
take_scan_front(list, ver, cells, ready) ==
    IF list = <<>>
    THEN [list |-> <<>>, entry |-> None, should_remove |-> TRUE]
    ELSE LET entry == Head(list)
             rest == Tail(list)
         IN  IF acceptable(entry, cells, ready)
             THEN IF ver # Http1
                  THEN [list |-> <<entry>> \o rest, entry |-> Some(entry),
                        should_remove |-> FALSE]
                  ELSE [list |-> rest, entry |-> Some(entry),
                        should_remove |-> rest = <<>>]
             ELSE take_scan_front(rest, ver, cells, ready)

\* The scan handing every version's entry out exclusively: nothing is pushed
\* back for Http2.
RECURSIVE take_scan_exclusive(_, _, _, _)
take_scan_exclusive(list, ver, cells, ready) ==
    IF list = <<>>
    THEN [list |-> <<>>, entry |-> None, should_remove |-> TRUE]
    ELSE LET entry == list[Len(list)]
             rest == Pops(list)
         IN  IF acceptable(entry, cells, ready)
             THEN [list |-> rest, entry |-> Some(entry),
                   should_remove |-> rest = <<>>]
             ELSE take_scan_exclusive(rest, ver, cells, ready)

\* The scan of idle[key] in take (the while-let loop over list.pop()).
RECURSIVE take_scan(_, _, _, _)
take_scan(list, ver, cells, ready) ==
    IF list = <<>>
    THEN [list |-> <<>>, entry |-> None, should_remove |-> TRUE]
    ELSE LET entry == list[Len(list)]
             rest == Pops(list)
         IN  IF acceptable(entry, cells, ready)
             THEN IF ver # Http1
                  THEN [list |-> Append(rest, entry), entry |-> Some(entry),
                        should_remove |-> FALSE]
                  ELSE [list |-> rest, entry |-> Some(entry),
                        should_remove |-> rest = <<>>]
             ELSE take_scan(rest, ver, cells, ready)

\* take without the removal of the emptied bucket.
take_keeps_bucket(key, cells, ready) ==
    IF key \notin DOMAIN idle
    THEN [pooled |-> None, cell |-> cells, idle |-> idle, connecting |-> connecting]
    ELSE LET scan == take_scan(idle[key], key[2], cells, ready)
             cells1 == IF scan.entry # None /\ key[2] # Http1
                       THEN [cells EXCEPT ![Unwrap(scan.entry).status] = Idle(now)]
                       ELSE cells
             r == reuse(key, Unwrap(scan.entry), cells1)
         IN  [pooled |-> IF scan.entry = None THEN None ELSE Some(r.pooled),
              cell |-> IF scan.entry = None THEN cells1 ELSE r.cell,
              idle |-> MapInsert(idle, key, scan.list),
              connecting |-> connecting]

\* Pool::take(key) on the status cells `cells`.
take(key, cells, ready) ==
    IF key \notin DOMAIN idle
    THEN [pooled |-> None, cell |-> cells, idle |-> idle, connecting |-> connecting]
    ELSE LET scan == take_scan(idle[key], key[2], cells, ready)
             cells1 == IF scan.entry # None /\ key[2] # Http1
                       THEN [cells EXCEPT ![Unwrap(scan.entry).status] = Idle(now)]
                       ELSE cells
             r == reuse(key, Unwrap(scan.entry), cells1)
         IN  [pooled |-> IF scan.entry = None THEN None ELSE Some(r.pooled),
              cell |-> IF scan.entry = None THEN cells1 ELSE r.cell,
              idle |-> IF scan.should_remove THEN MapRemove(idle, key)
                       ELSE MapInsert(idle, key, scan.list),
              connecting |-> IF scan.should_remove THEN connecting \ {key}
                             ELSE connecting]

\* ---------------------------------------------------------------- Pool::park
park(key, w) ==
    MapInsert(parked, key,
              Append(IF key \in DOMAIN parked THEN parked[key] ELSE <<>>, w))

\* -------------------------------------------------------- Pool::clean_parked
\* retain looking at the sender only, not at the token.
retain_by_sender(queue, chk) ==
    SelectSeq(queue, LAMBDA w : ~tx_is_canceled(w, chk))

retain(queue, chk) == SelectSeq(queue, LAMBDA w : ~waiter_is_canceled(w, chk))

\* Rc::strong_count of PoolInner: the client's Pool handles and the clone of
\* the Pool each Checkout owns (Pool::checkout, `pool: self.clone()`).
strong_count(n, chk) ==
    n + Cardinality({co \in DOMAIN chk : chk[co] # None})

clean_parked(key, chk) ==
    IF key \notin DOMAIN parked THEN parked
    ELSE IF retain(parked[key], chk) = <<>> THEN MapRemove(parked, key)
    ELSE MapInsert(parked, key, retain(parked[key], chk))

\* ----------------------------------------------------- Checkout::poll_parked
\* The sender of checkout co's channel still exists: it sits in parked[key].
sender_alive(co) ==
    LET key == Unwrap(checkout[co]).key
    IN  key \in DOMAIN parked /\ co \in Range(parked[key])

\* ret is Ready (with the entry), NotReady, or NotParked; parked is the
\* Checkout's parked field afterwards.
poll_parked(co, ready) ==
    LET c == Unwrap(checkout[co]) IN
    IF c.cancel_token
    THEN [ret |-> "NotParked", entry |-> None, parked |-> None]
    ELSE IF c.parked # None
    THEN LET rx == Unwrap(c.parked) IN
         IF rx # None
         THEN IF poll_ready(Unwrap(rx).value, ready) = "Ready"
              THEN [ret |-> "Ready", entry |-> rx, parked |-> Some(None)]
              ELSE [ret |-> "NotParked", entry |-> None, parked |-> None]
         ELSE IF sender_alive(co)
              THEN [ret |-> "NotReady", entry |-> None, parked |-> c.parked]
              ELSE [ret |-> "NotParked", entry |-> None, parked |-> None]
    ELSE [ret |-> "NotParked", entry |-> None, parked |-> None]

\* The values whose poll_ready a poll of co can reach: the one waiting in
\* its receiver and those of the idle entries of its key that are Idle and
\* not expired.  What the others would answer makes no difference.
consulted(co) ==
    LET c == Unwrap(checkout[co])
        rx == IF c.parked = None \/ c.cancel_token THEN None ELSE Unwrap(c.parked)
        list == IF c.key \in DOMAIN idle THEN idle[c.key] ELSE <<>>
    IN  {e.value : e \in Range(rx)}
        \cup {e.value : e \in {x \in Range(list) :
                  /\ status(cell[x.status]) = "Idle"
                  /\ ~expires(cell[x.status][2])}}

\* ------------------------------------------------------------------- actions
\* Pool::new(enabled, timeout)
Start(limits, enableds, timeouts, versions) ==
    /\ limit = limits
    /\ enabled \in enableds
    /\ timeout \in timeouts
    /\ now = 0
    /\ pools = 1
    /\ pool_alive = TRUE
    /\ connecting = {}
    /\ idle = EmptyMap
    /\ parked = EmptyMap
    /\ cell = <<>>
    /\ held = EmptyBag
    /\ target \in Origins \X versions
    /\ checkout = <<>>
    /\ last = NoOp

InitWaiters ==
    \/ Start(Waiters, {TRUE}, {None}, {Http1})
    \/ Start(Sharers, {TRUE}, {None}, {Http1})
InitSharers == Start(Sharers, {TRUE}, {None}, {Http2})
InitReusers ==
    \/ Start(Reusers, BOOLEAN, {None, Some(MaxTimeout)}, {Http1})
    \/ Start(Returners, BOOLEAN, {None, Some(MaxTimeout)}, {Http1})
InitMultiplexers ==
    \/ Start(Multiplexers, {TRUE}, {None, Some(MaxTimeout)}, {Http2})
    \/ Start(Streams, {TRUE}, {None}, {Http2})
    \/ Start(Returners, BOOLEAN, {None, Some(MaxTimeout)}, {Http2})
Init == InitWaiters \/ InitSharers \/ InitReusers \/ InitMultiplexers

\* Pool::pooled(key, value): value is the next connection; the caller holds
\* the Pooled it returns.
Pool_pooled(key) ==
    LET value == Len(cell) + 1
        entry == Entry(value, FALSE, value)
        cells == Append(cell, Busy)
        r == put(key, entry, cells, checkout)
    IN  /\ pools > 0
        /\ key = target
        /\ Len(cell) < limit.conns
        /\ held' = held (+) SetToBag({Pooled(entry, key)})
        /\ IF key[2] # Http1
           THEN /\ bucket_len(r.idle, key) <= limit.idle
                /\ cell' = r.cell
                /\ checkout' = r.checkout
                /\ parked' = r.parked
                /\ connecting' = r.connecting
                /\ idle' = r.idle
           ELSE /\ cell' = cells
                /\ UNCHANGED <<checkout, parked, connecting, idle>>
        /\ last' = Op("pooled", value)
        /\ UNCHANGED <<now, enabled, timeout, pools, pool_alive, target, limit>>

\* Clone for Pool: the client holds one more handle to the same PoolInner.
Pool_clone ==
    /\ pools > 0
    /\ pools < limit.pools
    /\ pools' = pools + 1
    /\ last' = NoOp
    /\ UNCHANGED <<now, enabled, timeout, pool_alive, connecting, idle, parked,
                   cell, held, target, limit, checkout>>

\* Pool::checkout(key, ver): the next Checkout.
Pool_checkout(key) ==
    /\ pools > 0
    /\ key = target
    /\ Len(checkout) < limit.checkouts
    /\ checkout' = Append(checkout, Some(NewCheckout(key)))
    /\ last' = NoOp
    /\ UNCHANGED <<now, enabled, timeout, pools, pool_alive, connecting, idle, parked,
                   cell, held, target, limit>>

\* Pool::connecting(key)
Pool_connecting(key) ==
    /\ pools > 0
    /\ key = target
    /\ connecting' = IF key[2] # Http1 THEN connecting \cup {key} ELSE connecting
    /\ last' = NoOp
    /\ UNCHANGED <<now, enabled, timeout, pools, pool_alive, idle, parked, cell, held, target, limit, checkout>>

\* Clone for Pooled (derived): the caller holds one more handle equal to h,
\* on the same status cell.
Pooled_clone(h) ==
    /\ BagCardinality(held) < limit.held
    /\ held' = held (+) SetToBag({h})
    /\ last' = NoOp
    /\ UNCHANGED <<now, enabled, timeout, pools, pool_alive, connecting, idle, parked,
                   cell, target, limit, checkout>>

\* The caller drops a Pooled: there is no Drop impl, the pool and the status
\* cell are left as they are.
Pooled_drop(h) ==
    /\ held' = held (-) SetToBag({h})
    /\ last' = NoOp
    /\ UNCHANGED <<now, enabled, timeout, pools, pool_alive, connecting, idle, parked,
                   cell, target, limit, checkout>>

\* Pooled::busy
Pooled_busy(h) ==
    /\ cell' = [cell EXCEPT ![h.entry.status] = Busy]
    /\ last' = NoOp
    /\ UNCHANGED <<now, enabled, timeout, pools, pool_alive, connecting, idle, parked,
                   held, target, limit, checkout>>

\* Pooled::disable
Pooled_disable(h) ==
    /\ cell' = [cell EXCEPT ![h.entry.status] = Disabled]
    /\ last' = NoOp
    /\ UNCHANGED <<now, enabled, timeout, pools, pool_alive, connecting, idle, parked,
                   held, target, limit, checkout>>

\* BitAndAssign<bool> for Pooled
bitand_assign(h, enable) ==
    /\ cell' = IF ~enable
               THEN [cell EXCEPT ![h.entry.status] = Disabled]
               ELSE cell
    /\ last' = NoOp
    /\ UNCHANGED <<now, enabled, timeout, pools, pool_alive, connecting, idle, parked,
                   held, target, limit, checkout>>

\* Pooled::idle
Pooled_idle(h) ==
    /\ LET pooled == h
           previous == status(cell[pooled.entry.status])
           cells == [cell EXCEPT ![pooled.entry.status] = Idle(now)]
           entry == [pooled.entry EXCEPT !.is_reused = TRUE]
           r == put(pooled.key, entry, cells, checkout)
       IN  IF previous = "Idle"
           THEN /\ cell' = cells
                /\ last' = [Op("idle", h.entry.value) EXCEPT !.res = "already"]
                /\ UNCHANGED <<held, checkout, parked, connecting, idle>>
           ELSE /\ held' = (held (-) SetToBag({h}))
                          (+) SetToBag({Pooled(entry, pooled.key)})
                /\ IF pool_alive /\ is_enabled
                   THEN /\ bucket_len(r.idle, pooled.key) <= limit.idle
                        /\ cell' = r.cell
                        /\ checkout' = r.checkout
                        /\ parked' = r.parked
                        /\ connecting' = r.connecting
                        /\ idle' = r.idle
                        /\ last' = [Op("idle", h.entry.value) EXCEPT
                                        !.res = "put",
                                        !.popped = bucket_len(parked, pooled.key)
                                                   - bucket_len(r.parked, pooled.key)]
                   ELSE /\ cell' = [cells EXCEPT ![pooled.entry.status] = Disabled]
                        /\ last' = [Op("idle", h.entry.value) EXCEPT
                                        !.res = "disabled"]
                        /\ UNCHANGED <<checkout, parked, connecting, idle>>
    /\ UNCHANGED <<now, enabled, timeout, pools, pool_alive, target, limit>>

\* Future::poll for Checkout; the caller holds the Pooled it yields.
Checkout_poll(co, ready) ==
    /\ co \in DOMAIN checkout
    /\ checkout[co] # None
    /\ ~Unwrap(checkout[co]).done
    /\ \A value \in DOMAIN ready :
          value \notin consulted(co) => ready[value] = "Ready"
    /\ LET c == Unwrap(checkout[co])
           pp == poll_parked(co, ready)
           ru == reuse(c.key, Unwrap(pp.entry), cell)
           t == take(c.key, cell, ready)
           may_park == pp.parked = None /\ ~c.cancel_token
       IN  CASE pp.ret = "Ready" ->
                  /\ held' = held (+) SetToBag({ru.pooled})
                  /\ cell' = ru.cell
                  /\ checkout' = [checkout EXCEPT ![co] =
                         Some([c EXCEPT !.parked = pp.parked, !.done = TRUE])]
                  /\ last' = Returned("poll", co, "Ready",
                                      Unwrap(pp.entry).value, "parked", ready, 0)
                  /\ UNCHANGED <<idle, parked, connecting>>
            [] pp.ret = "NotReady" ->
                  /\ last' = Returned("poll", co, "NotReady", 0, "parked", ready, 0)
                  /\ UNCHANGED <<held, cell, checkout, idle, parked, connecting>>
            [] pp.ret = "NotParked" /\ t.pooled # None ->
                  /\ held' = held (+) SetToBag({Unwrap(t.pooled)})
                  /\ cell' = t.cell
                  /\ idle' = t.idle
                  /\ connecting' = t.connecting
                  /\ checkout' = [checkout EXCEPT ![co] =
                         Some([c EXCEPT !.parked = pp.parked, !.done = TRUE])]
                  /\ last' = Returned("poll", co, "Ready",
                                      Unwrap(t.pooled).entry.value, "idle", ready,
                                      bucket_len(idle, c.key) - bucket_len(t.idle, c.key))
                  /\ UNCHANGED parked
            [] pp.ret = "NotParked" /\ t.pooled = None ->
                  /\ cell' = t.cell
                  /\ idle' = t.idle
                  /\ connecting' = t.connecting
                  /\ parked' = IF may_park THEN park(c.key, co) ELSE parked
                  /\ checkout' = [checkout EXCEPT ![co] =
                         Some([c EXCEPT !.parked =
                                  IF may_park THEN Some(None) ELSE pp.parked])]
                  /\ last' = Returned("poll", co, "NotReady", 0, "idle", ready,
                                      bucket_len(idle, c.key))
                  /\ UNCHANGED held
    /\ UNCHANGED <<now, enabled, timeout, pools, pool_alive, target, limit>>

\* Drop for Checkout
Checkout_drop(co) ==
    /\ co \in DOMAIN checkout
    /\ checkout[co] # None
    /\ LET chk == [checkout EXCEPT ![co] = None]
           alive == strong_count(pools, chk) > 0
       IN  /\ checkout' = chk
           /\ pool_alive' = alive
           /\ parked' = IF alive
                         THEN clean_parked(Unwrap(checkout[co]).key, chk)
                         ELSE EmptyMap
           /\ idle' = IF alive THEN idle ELSE EmptyMap
           /\ connecting' = IF alive THEN connecting ELSE {}
    /\ last' = [Op("drop", co) EXCEPT
                    !.via = IF sender_alive(co) THEN "parked" ELSE "none"]
    /\ UNCHANGED <<now, enabled, timeout, pools, cell, held, target, limit>>

\* CancelToken::cancel
CancelToken_cancel(co) ==
    /\ co \in DOMAIN checkout
    /\ checkout[co] # None
    /\ ~Unwrap(checkout[co]).cancel_token
    /\ checkout' = [checkout EXCEPT ![co] =
           Some([Unwrap(checkout[co]) EXCEPT !.cancel_token = TRUE])]
    /\ last' = NoOp
    /\ UNCHANGED <<now, enabled, timeout, pools, pool_alive, connecting, idle, parked,
                   cell, held, target, limit>>

\* The client drops a Pool handle.  PoolInner is dropped with its last
\* strong reference, and Weak::upgrade fails from then on.
Pool_drop ==
    /\ pools > 0
    /\ pools' = pools - 1
    /\ LET alive == strong_count(pools - 1, checkout) > 0
       IN  /\ pool_alive' = alive
           /\ idle' = IF alive THEN idle ELSE EmptyMap
           /\ parked' = IF alive THEN parked ELSE EmptyMap
           /\ connecting' = IF alive THEN connecting ELSE {}
    /\ last' = Op("pool_drop", 0)
    /\ UNCHANGED <<now, enabled, timeout, cell, held, target, limit, checkout>>

\* Time passes between two operations.
Tick ==
    /\ now < limit.time
    /\ now' = now + 1
    /\ last' = NoOp
    /\ UNCHANGED <<enabled, timeout, pools, pool_alive, connecting, idle, parked, cell,
                   held, target, limit, checkout>>

Next ==
    \/ \E key \in Key : Pool_pooled(key)
    \/ \E key \in Key : Pool_checkout(key)
    \/ \E key \in Key : Pool_connecting(key)
    \/ \E h \in BagToSet(held) : Pooled_clone(h)
    \/ \E h \in BagToSet(held) : Pooled_drop(h)
    \/ \E h \in BagToSet(held) : Pooled_busy(h)
    \/ \E h \in BagToSet(held) : Pooled_disable(h)
    \/ \E h \in BagToSet(held), enable \in BOOLEAN : bitand_assign(h, enable)
    \/ \E h \in BagToSet(held) : Pooled_idle(h)
    \/ \E co \in DOMAIN checkout, ready \in [1..Len(cell) -> Async] :
          Checkout_poll(co, ready)
    \/ \E co \in DOMAIN checkout : Checkout_drop(co)
    \/ \E co \in DOMAIN checkout : CancelToken_cancel(co)
    \/ Pool_clone
    \/ Pool_drop
    \/ Tick

Spec == Init /\ [][Next]_vars
SpecWaiters == InitWaiters /\ [][Next]_vars
SpecSharers == InitSharers /\ [][Next]_vars
SpecReusers == InitReusers /\ [][Next]_vars
SpecMultiplexers == InitMultiplexers /\ [][Next]_vars

\* ================================================================== claims
\* The bucket of the target key in a hash map, empty when the key is absent.
Bucket(m) == IF target \in DOMAIN m THEN m[target] ELSE <<>>
Max(S) == CHOOSE x \in S : \A y \in S : y <= x
Occurrences(value, list) == Cardinality({i \in 1..Len(list) : list[i].value = value})

\* An Idle(ts) status is expired iff a timeout is set and now - ts > timeout.
IsExpired(c) ==
    status(c) = "Idle" /\ timeout # None /\ now - c[2] > Unwrap(timeout)

\* An entry is usable for a poll whose probes answer r: Idle, not expired,
\* probe Ready.
Usable(e, r) ==
    /\ status(cell[e.status]) = "Idle"
    /\ ~IsExpired(cell[e.status])
    /\ r[e.value] = "Ready"

\* The waiter of checkout w is live: not dropped, its receiver kept, its
\* CancelToken not set.
Live(w) ==
    /\ checkout[w] # None
    /\ Unwrap(checkout[w]).parked # None
    /\ ~Unwrap(checkout[w]).cancel_token

FirstLive(q) == CHOOSE i \in 1..Len(q) : Live(q[i]) /\ \A j \in 1..(i - 1) : ~Live(q[j])

\* What the receiver of checkout w holds (None when there is no receiver).
Received(chk, w) ==
    IF chk[w] = None \/ Unwrap(chk[w]).parked = None THEN None
    ELSE Unwrap(Unwrap(chk[w]).parked)

\* ---------------------------------------------------------------------- C1
\* C1: for an Http1 key, the first poll of a checkout that has no receiver,
\* made when the entry last appended to idle[k] (the one idle() put there)
\* is Idle, not expired and probe Ready, and its value is in idle[k] once,
\* returns Ready with a Pooled wrapping that value; the status is then Busy
\* and the value is no longer in idle[k].
C1_Step(co) ==
    LET l == Bucket(idle)
        e == l[Len(l)]
    IN  ( /\ last'.op = "poll" /\ last'.id = co
          /\ target[2] = Http1
          /\ checkout[co] # None /\ Unwrap(checkout[co]).parked = None
          /\ l # <<>>
          /\ Usable(e, last'.ready)
          /\ Occurrences(e.value, l) = 1 )
        => ( /\ last'.res = "Ready"
             /\ last'.value = e.value
             /\ cell'[e.status] = Busy
             /\ Pooled([e EXCEPT !.is_reused = TRUE], target) \in BagToSet(held')
             /\ Occurrences(e.value, Bucket(idle')) = 0 )

C1_SmokeReuse == [][\A co \in DOMAIN checkout : C1_Step(co)]_vars

C1_Witness ==
    /\ last.op = "poll" /\ last.res = "Ready" /\ last.via = "idle"
    /\ target[2] = Http1 /\ enabled
    /\ cell[last.value] = Busy
    /\ target \notin DOMAIN idle
    /\ target \notin DOMAIN parked

\* ---------------------------------------------------------------------- C2
\* C2: for an Http1 key, when idle() on a handle that was not already Idle
\* reaches put (pool alive and enabled) while live waiters are parked for
\* the key, the entry goes to the receiver of the earliest live waiter and
\* idle[k] is left as it was; and a poll of a checkout that is not canceled
\* and whose receiver holds an entry whose probe is Ready returns Ready with
\* that entry's value, on the same status cell.
C2_Handoff ==
    LET q == Bucket(parked)
        w == q[FirstLive(q)]
        got == Received(checkout', w)
    IN  ( /\ last'.op = "idle" /\ last'.res = "put"
          /\ target[2] = Http1
          /\ \E i \in 1..Len(q) : Live(q[i]) )
        => ( /\ got # None
             /\ Unwrap(got).value = last'.id
             /\ idle' = idle )

C2_NextPoll(co) ==
    LET got == Received(checkout, co)
        e == Unwrap(got)
    IN  ( /\ last'.op = "poll" /\ last'.id = co
          /\ target[2] = Http1
          /\ got # None
          /\ ~Unwrap(checkout[co]).cancel_token
          /\ last'.ready[e.value] = "Ready" )
        => ( /\ last'.res = "Ready" /\ last'.via = "parked"
             /\ last'.value = e.value
             /\ \E h \in BagToSet(held') : h.entry.value = e.value
                                 /\ h.entry.status = e.status )

C2_WaiterServed ==
    [][C2_Handoff /\ \A co \in DOMAIN checkout : C2_NextPoll(co)]_vars

C2_Witness ==
    /\ last.op = "poll" /\ last.res = "Ready" /\ last.via = "parked"
    /\ target[2] = Http1
    /\ \E w \in DOMAIN checkout :
          w # last.id /\ w \in Range(Bucket(parked)) /\ Live(w)

\* ---------------------------------------------------------------------- C3
\* C3 as stated: no poll yields an expired connection, and when the only
\* idle entry of the key is expired the poll returns NotReady, removes the
\* entry and parks the checkout.
C3_OnlyExpired(co) ==
    LET l == Bucket(idle) IN
    /\ last'.op = "poll" /\ last'.id = co
    /\ Len(l) = 1
    /\ IsExpired(cell[l[1].status])

C3_Parks(co) ==
    /\ last'.res = "NotReady"
    /\ target \notin DOMAIN idle'
    /\ co \in Range(Bucket(parked'))
    /\ Received(checkout', co) = None /\ Unwrap(checkout'[co]).parked # None

C3_Original ==
    [][ /\ (last'.op = "poll" /\ last'.res = "Ready")
            => \A h \in BagToSet(held') : h.entry.value = last'.value
                                => ~IsExpired(cell[h.entry.status])
        /\ \A co \in DOMAIN checkout : C3_OnlyExpired(co) => C3_Parks(co) ]_vars

\* C3 amended: a poll that resolves from the idle list never yields an
\* expired entry, where Idle(ts) is expired iff the timeout is set and
\* now - ts > timeout: an entry on top of idle[k] whose age is at most the
\* timeout (or any age with timeout None) and whose probe is Ready is
\* yielded to a checkout without a receiver.  A handoff waiting in a parked
\* checkout's receiver is not checked for expiry.  When the only idle entry
\* of the key is expired and the polling checkout has no receiver and is
\* not canceled, the poll returns NotReady, the entry is removed from idle
\* and the checkout parks.
C3_FromIdle ==
    (last'.op = "poll" /\ last'.res = "Ready" /\ last'.via = "idle")
    => \E i \in 1..Len(Bucket(idle)) :
          /\ Bucket(idle)[i].value = last'.value
          /\ status(cell[Bucket(idle)[i].status]) = "Idle"
          /\ ~IsExpired(cell[Bucket(idle)[i].status])

C3_NotExpiredIsYielded(co) ==
    LET l == Bucket(idle)
        e == l[Len(l)]
    IN  ( /\ last'.op = "poll" /\ last'.id = co
          /\ checkout[co] # None /\ Unwrap(checkout[co]).parked = None
          /\ l # <<>>
          /\ Usable(e, last'.ready) )
        => (last'.res = "Ready" /\ last'.value = e.value)

C3_Fresh(co) ==
    /\ checkout[co] # None
    /\ Unwrap(checkout[co]).parked = None
    /\ ~Unwrap(checkout[co]).cancel_token

C3_Amended ==
    [][ /\ C3_FromIdle
        /\ \A co \in DOMAIN checkout :
              /\ C3_NotExpiredIsYielded(co)
              /\ (C3_OnlyExpired(co) /\ C3_Fresh(co)) => C3_Parks(co) ]_vars

C3_Witness ==
    /\ last.op = "poll" /\ last.res = "NotReady" /\ last.via = "idle"
    /\ last.popped = 1
    /\ Len(cell) = 1 /\ IsExpired(cell[1])
    /\ last.id \in Range(Bucket(parked))

\* ---------------------------------------------------------------------- C4
\* C4: for an Http1 key, a poll that resolves from idle[k] yields the most
\* recently appended entry that is Idle, not expired and probe Ready; the
\* entries appended after it are gone, those appended before it stay in
\* their order, and an emptied bucket is removed from the map.
C4_Lifo ==
    LET l == Bucket(idle)
        U == {i \in 1..Len(l) : Usable(l[i], last'.ready)}
        m == Max(U)
    IN  ( /\ last'.op = "poll" /\ last'.res = "Ready" /\ last'.via = "idle"
          /\ target[2] = Http1 )
        => ( /\ U # {}
             /\ last'.value = l[m].value
             /\ Bucket(idle') = SubSeq(l, 1, m - 1)
             /\ (target \in DOMAIN idle') = (m > 1) )

C4_TakeIsLifo == [][C4_Lifo]_vars

C4_Witness ==
    /\ last.op = "poll" /\ last.res = "Ready" /\ last.via = "idle"
    /\ target[2] = Http1
    /\ last.popped >= 2
    /\ target \in DOMAIN idle

\* ---------------------------------------------------------------------- C5
\* C5: dropping a Checkout leaves in parked[key] exactly the other waiters
\* that are live, in their original order; the key is deleted when none is
\* left; afterwards parked[key] holds no waiter whose receiver was dropped
\* or whose CancelToken is set.
C5_Drop(co) ==
    LET q == Bucket(parked)
        after == Bucket(parked')
    IN  (last'.op = "drop" /\ last'.id = co)
        => ( /\ after = SelectSeq(q, LAMBDA w : w # co /\ Live(w))
             /\ (target \in DOMAIN parked') = (after # <<>>)
             /\ \A w \in Range(after) :
                   /\ checkout'[w] # None
                   /\ Unwrap(checkout'[w]).parked # None
                   /\ ~Unwrap(checkout'[w]).cancel_token )

C5_DropCleansParked == [][\A co \in DOMAIN checkout : C5_Drop(co)]_vars

C5_Witness ==
    /\ last.op = "drop" /\ last.via = "parked"
    /\ Len(Bucket(parked)) = 2

\* ---------------------------------------------------------------------- C6
\* C6 as stated: for an Http2 key, pooled leaves the connection in idle[k]
\* with a handle in the caller's hands; every poll made while an entry of
\* idle[k] is Idle, not expired and probe Ready returns Ready with a handle
\* to that entry's connection and leaves it in idle[k]; the handles to one
\* connection share its status cell, so disable() through one of them reads
\* Disabled through all.
C6_Installs ==
    (last'.op = "pooled" /\ target[2] = Http2)
    => /\ Occurrences(last'.id, Bucket(idle')) = 1
       /\ \E h \in BagToSet(held') : h.entry.value = last'.id /\ h.entry.status = last'.id

C6_Yields(e) ==
    /\ last'.res = "Ready"
    /\ last'.value = e.value
    /\ \E h \in BagToSet(held') : h.entry.value = e.value /\ h.entry.status = e.status
    /\ Occurrences(e.value, Bucket(idle')) >= 1

C6_SharedCell ==
    /\ \A h \in BagToSet(held), g \in BagToSet(held) :
          h.entry.value = g.entry.value => h.entry.status = g.entry.status
    /\ \A h \in BagToSet(held) :
          Pooled_disable(h)
          => \A g \in BagToSet(held') : g.entry.value = h.entry.value
                              => status(cell'[g.entry.status]) = "Disabled"

C6_Original ==
    [][ /\ C6_Installs
        /\ C6_SharedCell
        /\ \A co \in DOMAIN checkout, e \in Range(Bucket(idle)) :
              ( /\ last'.op = "poll" /\ last'.id = co
                /\ target[2] = Http2
                /\ Usable(e, last'.ready) )
              => C6_Yields(e) ]_vars

\* C6 amended: for an Http2 key, pooled leaves the connection in idle[k]
\* with a handle in the caller's hands.  A poll returns Ready with a handle
\* to the most recently appended entry of idle[k] that is Idle, not expired
\* and probe Ready, and leaves it in idle[k] (the entries appended after it
\* are dropped, the list up to it is kept), provided the checkout is
\* canceled or its receiver holds no handoff of another connection.  The
\* handles to one connection share its status cell, so disable() through
\* one of them reads Disabled through all.
C6_ServesTop(co) ==
    LET l == Bucket(idle)
        U == {i \in 1..Len(l) : Usable(l[i], last'.ready)}
        e == l[Max(U)]
        got == Received(checkout, co)
    IN  ( /\ last'.op = "poll" /\ last'.id = co
          /\ target[2] = Http2
          /\ U # {}
          /\ \/ Unwrap(checkout[co]).cancel_token
             \/ got = None
             \/ Unwrap(got).value = e.value )
        => ( /\ C6_Yields(e)
             /\ last'.via = "idle" => Bucket(idle') = SubSeq(l, 1, Max(U))
             /\ last'.via = "parked" => idle' = idle )

C6_Amended ==
    [][ /\ C6_Installs
        /\ C6_SharedCell
        /\ \A co \in DOMAIN checkout : C6_ServesTop(co) ]_vars

C6_Witness ==
    /\ last.op = "poll" /\ last.res = "Ready" /\ last.via = "idle"
    /\ target[2] = Http2
    /\ Len(cell) = 1
    /\ Cardinality({co \in DOMAIN checkout :
                       checkout[co] # None /\ Unwrap(checkout[co]).done}) = 2
    /\ Occurrences(last.value, Bucket(idle)) >= 1
    /\ status(cell[last.value]) = "Idle"
    /\ CopiesIn(Pooled(Entry(last.value, FALSE, last.value), target), held) = 1
    /\ CopiesIn(Pooled(Entry(last.value, TRUE, last.value), target), held) = 2

\* ---------------------------------------------------------------------- C7
\* C7: a poll never yields a connection whose shared status is Disabled
\* when the poll is made, whether the entry sits in idle[k] or waits in the
\* checkout's receiver.
C7_DisabledNeverYielded ==
    [][ (last'.op = "poll" /\ last'.res = "Ready")
        => \A h \in BagToSet(held') : h.entry.value = last'.value
                            => status(cell[h.entry.status]) # "Disabled" ]_vars

\* ---------------------------------------------------------------------- C8
\* C8: for an Http1 key, no entry of idle[k] shares its status cell with a
\* handle a caller holds whose status is Busy.
C8_ExclusiveOwnership ==
    target[2] = Http1
    => \A e \in Range(Bucket(idle)), h \in BagToSet(held) :
          h.entry.status = e.status => status(cell[h.entry.status]) # "Busy"

\* ---------------------------------------------------------------------- C9
\* C9: for an Http1 key, put gives the entry to the earliest waiter of
\* parked[key] whose Checkout is not dropped and whose CancelToken is not
\* set, and to no other checkout; the waiters ahead of it leave the queue
\* with nothing, the waiters behind it stay in their order; a checkout whose
\* token is set is left as it was.  With no such waiter the queue is
\* removed and the entry is appended to idle[key].
C9_Live(w) == checkout[w] # None /\ ~Unwrap(checkout[w]).cancel_token

C9_Put ==
    LET q == Bucket(parked)
        L == {i \in 1..Len(q) : C9_Live(q[i])}
        i == CHOOSE x \in L : \A y \in L : x <= y
        got == Received(checkout', q[i])
    IN  ( /\ last'.op = "idle" /\ last'.res = "put"
          /\ target[2] = Http1 )
        => /\ \A w \in DOMAIN checkout :
                 (checkout[w] # None /\ Unwrap(checkout[w]).cancel_token)
                 => checkout'[w] = checkout[w]
           /\ IF L = {}
              THEN /\ target \notin DOMAIN parked'
                   /\ checkout' = checkout
                   /\ Len(Bucket(idle')) = Len(Bucket(idle)) + 1
                   /\ Bucket(idle')[Len(Bucket(idle'))].value = last'.id
              ELSE /\ got # None
                   /\ Unwrap(got).value = last'.id
                   /\ Bucket(parked') = SubSeq(q, i + 1, Len(q))
                   /\ (target \in DOMAIN parked') = (i < Len(q))
                   /\ \A w \in DOMAIN checkout :
                         w # q[i] => checkout'[w] = checkout[w]
                   /\ idle' = idle

C9_FifoAcrossLive == [][C9_Put]_vars

C9_Witness ==
    /\ last.op = "idle" /\ last.res = "put" /\ last.popped = 2
    /\ target[2] = Http1
    /\ Len(Bucket(parked)) = 1
    /\ \E a \in DOMAIN checkout, b \in DOMAIN checkout :
          /\ checkout[a] # None /\ Unwrap(checkout[a]).cancel_token
          /\ Received(checkout, a) = None
          /\ a \notin Range(Bucket(parked))
          /\ Received(checkout, b) # None
          /\ Unwrap(Received(checkout, b)).value = last.id

\* --------------------------------------------------------------------- C10
\* C10: on a pool created with enabled = false, idle holds no entry and no
\* poll returns Ready.
C10_DisabledPoolIsEmpty ==
    ~enabled => /\ idle = EmptyMap
                /\ ~(last.op = "poll" /\ last.res = "Ready")

\* --------------------------------------------------------------------- C11
\* C11: idle() on a handle whose status is not Idle, when the pool is gone
\* or its enabled flag is false, leaves the status Disabled, leaves idle,
\* parked and connecting as they were and completes no waiter.
C11_Idle ==
    ( /\ last'.op = "idle"
      /\ status(cell[last'.id]) # "Idle"
      /\ (~pool_alive \/ ~enabled) )
    => ( /\ cell'[last'.id] = Disabled
         /\ \A h \in BagToSet(held') : h.entry.value = last'.id
                             => status(cell'[h.entry.status]) = "Disabled"
         /\ idle' = idle
         /\ parked' = parked
         /\ connecting' = connecting
         /\ checkout' = checkout )

C11_IdleDegradesToDisabled == [][C11_Idle]_vars

C11_Witness ==
    /\ last.op = "idle" /\ last.res = "disabled"
    /\ ~enabled /\ pool_alive
    /\ cell[last.id] = Disabled
    /\ \E w \in Range(Bucket(parked)) : Live(w) /\ Received(checkout, w) = None
    /\ target \notin DOMAIN idle

\* --------------------------------------------------------------------- C12
\* C12 as stated: the Pooled that pooled(key, value) returns has status Busy
\* and reused = false, for Http1 and Http2.
C12_Original ==
    [][ last'.op = "pooled"
        => \E h \in BagToSet(held') :
              /\ h.entry.value = last'.id
              /\ ~h.entry.is_reused
              /\ status(cell'[h.entry.status]) = "Busy" ]_vars

\* C12 amended: the Pooled that pooled(key, value) returns has
\* reused = false; its status is Busy for an Http1 key, and Idle with the
\* time of the call for an Http2 key, because put has written the status
\* cell the handle shares with the entry it placed in idle[key].
C12_Amended ==
    [][ last'.op = "pooled"
        => \E h \in BagToSet(held') :
              /\ h.entry.value = last'.id
              /\ ~h.entry.is_reused
              /\ h.key = target
              /\ cell'[h.entry.status] =
                    IF target[2] = Http1 THEN Busy ELSE Idle(now) ]_vars

C12_Witness ==
    /\ last.op = "pooled"
    /\ target[2] = Http2
    /\ now > 0
    /\ cell[last.id] = Idle(now)
    /\ \E h \in BagToSet(held) : h.entry.value = last.id /\ ~h.entry.is_reused

\* --------------------------------------------------------------------- C13
\* C13: after every operation no key has both a non-empty parked queue and
\* a non-empty idle list; an operation that appends to idle[k] leaves no
\* queue parked for k, and a poll that parks its checkout leaves no list
\* idle for k.
C13_NotBoth ==
    \A k \in Key : ~(bucket_len(parked, k) > 0 /\ bucket_len(idle, k) > 0)

C13_Step ==
    /\ Len(Bucket(idle')) > Len(Bucket(idle)) => target \notin DOMAIN parked'
    /\ \A co \in DOMAIN checkout :
          (co \notin Range(Bucket(parked)) /\ co \in Range(Bucket(parked')))
          => target \notin DOMAIN idle'

C13_ParkedOrIdle == [][C13_NotBoth' /\ C13_Step]_vars

C13_Witness ==
    /\ last.op = "idle" /\ last.res = "put" /\ last.popped >= 1
    /\ target \in DOMAIN idle
    /\ target \notin DOMAIN parked
    /\ \E w \in DOMAIN checkout :
          checkout[w] # None /\ Unwrap(checkout[w]).cancel_token

\* --------------------------------------------------------------------- C14
\* C14: no key of idle maps to an empty list and no key of parked maps to
\* an empty queue.
C14_NoEmptyBuckets ==
    /\ \A k \in DOMAIN idle : idle[k] # <<>>
    /\ \A k \in DOMAIN parked : parked[k] # <<>>

C14_Witness ==
    /\ last.op = "poll" /\ last.res = "NotReady" /\ last.via = "idle"
    /\ last.popped >= 2
    /\ target \notin DOMAIN idle
    /\ target \in DOMAIN parked

\* --------------------------------------------------------------------- C15
\* C15: for an Http1 key, when a Checkout whose receiver holds a connection
\* handed over by put is dropped, the connection is afterwards in idle[key]
\* or in the receiver of another live waiter.
C15_Drop(co) ==
    LET got == Received(checkout, co)
        v == Unwrap(got).value
    IN  ( /\ last'.op = "drop" /\ last'.id = co
          /\ target[2] = Http1
          /\ got # None )
        => \/ Occurrences(v, Bucket(idle')) > 0
           \/ \E w \in DOMAIN checkout' :
                 /\ checkout'[w] # None
                 /\ ~Unwrap(checkout'[w]).cancel_token
                 /\ Received(checkout', w) # None
                 /\ Unwrap(Received(checkout', w)).value = v

C15_HandoffNotLost == [][\A co \in DOMAIN checkout : C15_Drop(co)]_vars

\* --------------------------------------------------------------------- C16
\* C16: for an Http1 key, a poll that yields a connection is never followed
\* directly by another poll that yields the same connection: no idle() was
\* called between the two.
C16_NoDoubleYield ==
    [][ ( /\ target[2] = Http1
          /\ last.op = "poll" /\ last.res = "Ready" )
        => ~( /\ last'.op = "poll" /\ last'.res = "Ready"
              /\ last'.value = last.value ) ]_vars

\* --------------------------------------------------------------------- C17
\* C17 as stated: idle() on a handle whose status is already Idle changes
\* nothing: not the status cell with its timestamp, not the reused flag,
\* not idle, parked or connecting.
C17_AlreadyIdle ==
    /\ last'.op = "idle"
    /\ status(cell[last'.id]) = "Idle"

C17_Frame ==
    /\ held' = held
    /\ idle' = idle
    /\ parked' = parked
    /\ connecting' = connecting
    /\ checkout' = checkout

C17_Original == [][C17_AlreadyIdle => (cell' = cell /\ C17_Frame)]_vars

\* C17 amended: idle() on a handle whose status is already Idle sets the
\* timestamp of the shared status cell to the time of the call and changes
\* nothing else: the status stays Idle, and the reused flag, idle, parked
\* and connecting are left as they were.
C17_Amended ==
    [][ C17_AlreadyIdle
        => ( /\ cell' = [cell EXCEPT ![last'.id] = <<"Idle", now>>]
             /\ C17_Frame ) ]_vars

C17_Witness ==
    /\ last.op = "idle" /\ last.res = "already"
    /\ now > 0
    /\ cell[last.id] = <<"Idle", now>>
    /\ Occurrences(last.id, Bucket(idle)) = 1
    /\ timeout # None

\* --------------------------------------------------------------------- C18
\* C18: a put for an Http2 key (from pooled, or from idle() on a handle that
\* was not Idle) gives every live waiter parked for the key a clone of the
\* entry on the same status cell, gives the canceled waiters nothing,
\* leaves parked[key] absent and appends the entry to idle[key].
C18_Put ==
    LET q == Bucket(parked)
        v == last'.id
        l == Bucket(idle')
    IN  ( /\ \/ last'.op = "pooled"
             \/ last'.op = "idle" /\ last'.res = "put"
          /\ target[2] = Http2 )
        => ( /\ \A w \in Range(q) :
                   IF Live(w)
                   THEN /\ Received(checkout', w) # None
                        /\ Unwrap(Received(checkout', w)).value = v
                        /\ Unwrap(Received(checkout', w)).status = v
                   ELSE checkout'[w] = checkout[w]
             /\ \A w \in DOMAIN checkout :
                   w \notin Range(q) => checkout'[w] = checkout[w]
             /\ target \notin DOMAIN parked'
             /\ Len(l) = Len(Bucket(idle)) + 1
             /\ SubSeq(l, 1, Len(l) - 1) = Bucket(idle)
             /\ l[Len(l)].value = v /\ l[Len(l)].status = v
             /\ cell'[v] = <<"Idle", now>> )

C18_MultiplexedPut == [][C18_Put]_vars

C18_Witness ==
    /\ last.op = "idle" /\ last.res = "put" /\ last.popped = 2
    /\ target[2] = Http2
    /\ target \notin DOMAIN parked
    /\ Occurrences(last.id, Bucket(idle)) = 1
    /\ \E a \in DOMAIN checkout, c \in DOMAIN checkout :
          /\ Live(a) /\ Received(checkout, a) # None
          /\ Unwrap(Received(checkout, a)).value = last.id
          /\ checkout[c] # None /\ Unwrap(checkout[c]).cancel_token
          /\ Received(checkout, c) = None

\* --------------------------------------------------------------------- C19
\* C19 as stated: at both sampling points the probe decides the handout by
\* version.  For a checkout that is not canceled and holds a handoff, and
\* for a checkout without a receiver meeting an Idle, not expired entry on
\* top of idle[k]: the entry is yielded when its probe is Ready, or NotReady
\* on an Http2 key; otherwise it is dropped and not handed out.
C19_Handoff(co, ok) ==
    LET got == Received(checkout, co)
        e == Unwrap(got)
    IN  ( /\ last'.op = "poll" /\ last'.id = co
          /\ got # None
          /\ ~Unwrap(checkout[co]).cancel_token )
        => IF last'.ready[e.value] \in ok
           THEN /\ last'.res = "Ready" /\ last'.via = "parked"
                /\ last'.value = e.value
           ELSE /\ last'.via = "idle"
                /\ Received(checkout', co) = None
                /\ ~(last'.res = "Ready" /\ last'.value = e.value)

C19_FromIdle(co, ok) ==
    LET l == Bucket(idle)
        e == l[Len(l)]
    IN  ( /\ last'.op = "poll" /\ last'.id = co
          /\ Unwrap(checkout[co]).parked = None
          /\ l # <<>>
          /\ status(cell[e.status]) = "Idle"
          /\ ~IsExpired(cell[e.status]) )
        => IF last'.ready[e.value] \in ok
           THEN /\ last'.res = "Ready" /\ last'.via = "idle"
                /\ last'.value = e.value
           ELSE /\ ~(last'.res = "Ready" /\ last'.value = e.value)
                /\ Len(Bucket(idle')) < Len(l)

C19_ByVersion == IF target[2] = Http2 THEN {"Ready", "NotReady"} ELSE {"Ready"}

C19_Original ==
    [][ \A co \in DOMAIN checkout :
           /\ C19_Handoff(co, C19_ByVersion)
           /\ C19_FromIdle(co, C19_ByVersion) ]_vars

\* C19 amended: at both sampling points only a Ready probe makes the entry
\* usable, for Http1 and Http2 alike; an entry whose probe is NotReady or
\* Broken is dropped and not handed out (a handoff is dropped with the
\* receiver and the poll goes on to the idle list; an idle entry is popped
\* and the scan goes on).
C19_Amended ==
    [][ \A co \in DOMAIN checkout :
           /\ C19_Handoff(co, {"Ready"})
           /\ C19_FromIdle(co, {"Ready"}) ]_vars

C19_Witness ==
    /\ last.op = "poll" /\ last.res = "NotReady" /\ last.via = "idle"
    /\ last.popped = 1
    /\ target[2] = Http2
    /\ Len(cell) = 1
    /\ last.ready[1] = "NotReady"
    /\ cell[1] = <<"Idle", now>>
    /\ target \notin DOMAIN idle

\* --------------------------------------------------------------------- C20
\* C20: when a put for an Http2 key (from pooled, or from idle() on a handle
\* that was not Idle) ends with parked[key] absent, whether it drained
\* waiters or none were parked, connecting does not contain the key
\* afterwards.
C20_ConnectingCleared ==
    [][ ( /\ \/ last'.op = "pooled"
             \/ last'.op = "idle" /\ last'.res = "put"
          /\ target[2] = Http2
          /\ target \notin DOMAIN parked' )
        => target \notin connecting' ]_vars

====
